---- MODULE Spec2Model ----
(***************************************************************************)
(* Transfer-impact and ledger engine of the USDA Rebudget Tool.            *)
(*                                                                         *)
(* Representation.  A JavaScript currency number (dollars) is modelled by  *)
(* the integer number of cents that Number.toFixed(2) renders for it, so   *)
(* 1.50 is 150 and -0.50 is -50.  A decimal string such as "-1.50" is the  *)
(* record [neg, int, frac] of its sign, integer digits and two fraction    *)
(* digits.  A rate is the exact fraction [num, den] of the decimal literal *)
(* (0.276 = 69/250); Math.round(x) is floor(x + 1/2).  For the rates and   *)
(* amounts used here the IEEE double product and quotient round to the     *)
(* same cent as the exact fraction.  Account, mode and error names are     *)
(* strings.  The random id of a TransferItem and of a MappingRow and the   *)
(* description of a BudgetRow are not modelled.  The list of transfers     *)
(* given to projectWithTransfers is drawn one item per loop iteration:     *)
(* transfers holds the items the loop has taken so far.                    *)
(***************************************************************************)
EXTENDS Integers, Sequences, FiniteSets, TLC

\* ---------------------------------------------------------------- bounds
MaxTransfers == 2
MaxAmount == 26

MaxCents == 150

MaxFracDigits == 3

\* ------------------------------------------------------- small utilities
Abs(n) == IF n < 0 THEN -n ELSE n

Range(s) == {s[i] : i \in DOMAIN s}

RECURSIVE SelectSeqBy(_, _)
\* Array.prototype.filter for "account differs from a"
SelectSeqBy(s, a) ==
  IF s = <<>> THEN <<>>
  ELSE IF Head(s).account # a THEN <<Head(s)>> \o SelectSeqBy(Tail(s), a)
       ELSE SelectSeqBy(Tail(s), a)

\* Array.prototype.find by account: index of the first match, 0 when none
FindIdx(rows, a) ==
  IF \E i \in DOMAIN rows : rows[i].account = a
  THEN CHOOSE i \in DOMAIN rows :
         /\ rows[i].account = a
         /\ \A j \in DOMAIN rows : rows[j].account = a => i <= j
  ELSE 0

\* ----------------------------------------------------------- the codec
\* Number.prototype.toFixed(2): the decimal string of a currency number
toFixed2(n) == [neg |-> n < 0, int |-> Abs(n) \div 100, frac |-> Abs(n) % 100]

\* parseInt(i, 10) * 100 + parseInt(f.padEnd(2, "0").slice(0, 2), 10):
\* the sign is part of the integer digits only
parseDecimal(s) == (IF s.neg THEN -s.int ELSE s.int) * 100 + s.frac

toCents(v) == parseDecimal(toFixed2(v))

fromCents(c) == [neg |-> c < 0, int |-> Abs(c) \div 100, frac |-> Abs(c) % 100]

\* Number(string) of a decimal string, as a currency number
NumberOf(s) == (IF s.neg THEN -1 ELSE 1) * (s.int * 100 + s.frac)

\* ------------------------------------------- toCents reading a text
\* A text is a sequence of one-character strings; a JavaScript number that
\* may be NaN is a record [nan, val].
NaN == [nan |-> TRUE, val |-> 0]

Num(n) == [nan |-> FALSE, val |-> n]

Digits == <<"0", "1", "2", "3", "4", "5", "6", "7", "8", "9">>

IsDigit(c) == \E i \in DOMAIN Digits : Digits[i] = c

digitOf(c) == (CHOOSE i \in DOMAIN Digits : Digits[i] = c) - 1

\* s.replace(/[^0-9.-]/g, "")
keptChar(c) == IsDigit(c) \/ c = "." \/ c = "-"

cleaned(s) == SelectSeq(s, keptChar)

\* the pieces of s.split("."), by position (the empty text past the last)
RECURSIVE splitPart(_, _)
splitPart(s, k) ==
  LET dots == {i \in DOMAIN s : s[i] = "."}
      first == IF dots = {} THEN Len(s) + 1
               ELSE CHOOSE i \in dots : \A j \in dots : i <= j
  IN IF k = 1 THEN SubSeq(s, 1, first - 1)
     ELSE IF dots = {} THEN <<>>
     ELSE splitPart(SubSeq(s, first + 1, Len(s)), k - 1)

\* the length of the longest prefix of s made of digits
RECURSIVE digitPrefix(_)
digitPrefix(s) ==
  IF s = <<>> \/ ~IsDigit(Head(s)) THEN 0 ELSE 1 + digitPrefix(Tail(s))

\* the number a text of digits writes
RECURSIVE digitsValue(_)
digitsValue(s) ==
  IF s = <<>> THEN 0
  ELSE 10 * digitsValue(SubSeq(s, 1, Len(s) - 1)) + digitOf(s[Len(s)])

\* parseInt(s, 10) on a text without blanks: an optional sign, then the
\* digits up to the first other character; NaN when there is no digit
parseInt(s) ==
  LET neg == s # <<>> /\ s[1] = "-"
      body == IF neg THEN Tail(s) ELSE s
      n == digitPrefix(body)
      v == digitsValue(SubSeq(body, 1, n))
  IN IF n = 0 THEN NaN ELSE Num(IF neg THEN 0 - v ELSE v)

\* f.padEnd(2, "0").slice(0, 2)
twoDigits(f) == SubSeq(f \o <<"0", "0">>, 1, 2)

\* toCents of part_000 applied to a string
toCentsOfText(s) ==
  LET c == cleaned(s)
      i == splitPart(c, 1)
      f == splitPart(c, 2)
      whole == parseInt(IF i = <<>> THEN <<"0">> ELSE i)
      part == parseInt(twoDigits(f))
  IN IF whole.nan THEN NaN
     ELSE Num(whole.val * 100 + (IF part.nan THEN 0 ELSE part.val))

\* -Infinity, which a budget file can put in a row (Number("-Infinity") of a
\* CSV cell, -1e999 in JSON); it is held as a number below every amount
NegInfinity == 0 - 2^30

\* toCents of part_000 applied to a number: toFixed(2) writes a finite number
\* as a decimal and -Infinity as the text "-Infinity"
toCentsOfNumber(v) ==
  IF v = NegInfinity
  THEN toCentsOfText(<<"-", "I", "n", "f", "i", "n", "i", "t", "y">>)
  ELSE Num(toCents(v))

\* a !== b on numbers: NaN differs from everything, itself included
strictNotEqual(a, b) == a.nan \/ b.nan \/ a.val # b.val

\* mutant: the product is truncated instead of rounded
mulRate_trunc(cents, rate) == (cents * rate.num) \div rate.den

\* Math.round(cents * rate)
mulRate(cents, rate) == (2 * cents * rate.num + rate.den) \div (2 * rate.den)

\* mutant: the quotient is floored instead of rounded
divByOnePlus_floor(cents, rate) == (cents * rate.den) \div (rate.den + rate.num)

\* Math.round(cents / (1 + rate))
divByOnePlus(cents, rate) ==
  (2 * cents * rate.den + (rate.den + rate.num)) \div (2 * (rate.den + rate.num))

RECURSIVE sum(_)
sum(xs) == IF xs = <<>> THEN 0 ELSE Head(xs) + sum(Tail(xs))

\* ------------------------------------------------ eligibility and rate
ZeroRate == [num |-> 0, den |-> 1]

\* rates?.wrs_account_numbers?.indirect_costs || "58960"
fandaOf(rates) ==
  IF rates.present /\ rates.indirect_costs # "" THEN rates.indirect_costs ELSE "58960"

\* mutant: the indirect-cost account is looked up in the list like any other
isMtdcEligible_listOnly(acct, rates) ==
  IF ~rates.present THEN FALSE
  ELSE \E i \in DOMAIN rates.mtdc_eligible_accounts :
         rates.mtdc_eligible_accounts[i] = acct

\* mutant: the position found by indexOf is returned in place of the
\* membership, so the first entry (0) reads as false and a missing one (-1)
\* as true
isMtdcEligible_indexOf(acct, rates) ==
  IF ~rates.present THEN FALSE
  ELSE IF acct = fandaOf(rates) THEN FALSE
  ELSE LET elig == rates.mtdc_eligible_accounts
       IN ~(elig # <<>> /\ elig[1] = acct)

isMtdcEligible(acct, rates) ==
  IF ~rates.present THEN FALSE
  ELSE IF acct = fandaOf(rates) THEN FALSE
  ELSE \E i \in DOMAIN rates.mtdc_eligible_accounts :
         rates.mtdc_eligible_accounts[i] = acct

faRateForDest(destAcct, rates) == IF rates.present THEN rates.fa_rate ELSE ZeroRate

\* mutant: the snapshot is not consulted
encumbrancesFor_none(acct, snap) == 0

encumbrancesFor(acct, snap) ==
  LET i == FindIdx(snap, acct) IN IF i = 0 THEN 0 ELSE snap[i].encumbrances

baselineSum(rows) ==
  LET kept == SelectSeqBy(rows, "SUMMARY")
      cents == [i \in DOMAIN kept |-> toCentsOfNumber(kept[i].current_budget)]
  IN IF \E i \in DOMAIN cents : cents[i].nan THEN NaN
     ELSE Num(sum([i \in DOMAIN cents |-> cents[i].val]))

\* ------------------------------------------------ computeTransferImpact
\* mutant: the rate is applied whether or not the destination is eligible
computeTransferImpact_anyDest(rates, toAcct, amountCents, mode) ==
  LET eligible == isMtdcEligible(toAcct, rates)
      r == faRateForDest(toAcct, rates)
      truthy == r.num # 0
  IN IF amountCents <= 0 THEN [err |-> "InvalidAmount"]
     ELSE IF mode = "budget_total"
     THEN [err |-> "none", source_out |-> amountCents,
           direct_to_dest |-> IF truthy THEN divByOnePlus(amountCents, r) ELSE amountCents,
           fa_added |-> IF truthy THEN amountCents - divByOnePlus(amountCents, r) ELSE 0,
           eligible |-> eligible]
     ELSE [err |-> "none",
           source_out |-> amountCents + (IF truthy THEN mulRate(amountCents, r) ELSE 0),
           direct_to_dest |-> amountCents,
           fa_added |-> IF truthy THEN mulRate(amountCents, r) ELSE 0,
           eligible |-> eligible]

\* mutant: mode direct_to_dest takes the surcharge out of the requested amount
computeTransferImpact_netDirect(rates, toAcct, amountCents, mode) ==
  LET eligible == isMtdcEligible(toAcct, rates)
      r == IF eligible THEN faRateForDest(toAcct, rates) ELSE ZeroRate
      truthy == r.num # 0
      fa == IF truthy THEN mulRate(amountCents, r) ELSE 0
  IN IF amountCents <= 0 THEN [err |-> "InvalidAmount"]
     ELSE IF mode = "budget_total"
     THEN [err |-> "none", source_out |-> amountCents,
           direct_to_dest |-> IF truthy THEN divByOnePlus(amountCents, r) ELSE amountCents,
           fa_added |-> IF truthy THEN amountCents - divByOnePlus(amountCents, r) ELSE 0,
           eligible |-> eligible]
     ELSE [err |-> "none", source_out |-> amountCents,
           direct_to_dest |-> amountCents - fa, fa_added |-> fa,
           eligible |-> eligible]

\* mutant: only a negative amount is refused, zero goes through
computeTransferImpact_zeroOk(rates, toAcct, amountCents, mode) ==
  LET eligible == isMtdcEligible(toAcct, rates)
      r == IF eligible THEN faRateForDest(toAcct, rates) ELSE ZeroRate
      truthy == r.num # 0
  IN IF amountCents < 0 THEN [err |-> "InvalidAmount"]
     ELSE IF mode = "budget_total"
     THEN LET source_out == amountCents
              direct_to_dest == IF truthy THEN divByOnePlus(amountCents, r) ELSE amountCents
              fa_added == IF truthy THEN source_out - direct_to_dest ELSE 0
          IN [err |-> "none", source_out |-> source_out,
              direct_to_dest |-> direct_to_dest, fa_added |-> fa_added,
              eligible |-> eligible]
     ELSE LET direct_to_dest == amountCents
              fa_added == IF truthy THEN mulRate(direct_to_dest, r) ELSE 0
              source_out == direct_to_dest + fa_added
          IN [err |-> "none", source_out |-> source_out,
              direct_to_dest |-> direct_to_dest, fa_added |-> fa_added,
              eligible |-> eligible]

\* mutant: in mode direct_to_dest the surcharge is not added to what leaves
\* the source
computeTransferImpact_noGross(rates, toAcct, amountCents, mode) ==
  LET eligible == isMtdcEligible(toAcct, rates)
      r == IF eligible THEN faRateForDest(toAcct, rates) ELSE ZeroRate
      truthy == r.num # 0
  IN IF amountCents <= 0 THEN [err |-> "InvalidAmount"]
     ELSE IF mode = "budget_total"
     THEN LET source_out == amountCents
              direct_to_dest == IF truthy THEN divByOnePlus(amountCents, r) ELSE amountCents
              fa_added == IF truthy THEN source_out - direct_to_dest ELSE 0
          IN [err |-> "none", source_out |-> source_out,
              direct_to_dest |-> direct_to_dest, fa_added |-> fa_added,
              eligible |-> eligible]
     ELSE LET direct_to_dest == amountCents
              fa_added == IF truthy THEN mulRate(direct_to_dest, r) ELSE 0
              source_out == direct_to_dest
          IN [err |-> "none", source_out |-> source_out,
              direct_to_dest |-> direct_to_dest, fa_added |-> fa_added,
              eligible |-> eligible]

computeTransferImpact(rates, toAcct, amountCents, mode) ==
  LET eligible == isMtdcEligible(toAcct, rates)
      r == IF eligible THEN faRateForDest(toAcct, rates) ELSE ZeroRate
      truthy == r.num # 0
  IN IF amountCents <= 0 THEN [err |-> "InvalidAmount"]
     ELSE IF mode = "budget_total"
     THEN LET source_out == amountCents
              direct_to_dest == IF truthy THEN divByOnePlus(amountCents, r) ELSE amountCents
              fa_added == IF truthy THEN source_out - direct_to_dest ELSE 0
          IN [err |-> "none", source_out |-> source_out,
              direct_to_dest |-> direct_to_dest, fa_added |-> fa_added,
              eligible |-> eligible]
     ELSE LET direct_to_dest == amountCents
              fa_added == IF truthy THEN mulRate(direct_to_dest, r) ELSE 0
              source_out == direct_to_dest + fa_added
          IN [err |-> "none", source_out |-> source_out,
              direct_to_dest |-> direct_to_dest, fa_added |-> fa_added,
              eligible |-> eligible]

\* -------------------------------------------------------------- applyOne
\* the F&A row pushed when the working rows have none
newFandaRow(fandaAcct) ==
  [account |-> fandaAcct, current_budget |-> 0, proposed_budget |-> 0,
   change |-> 0, encumbrances |-> 0]

\* mutant: the F&A row made for a baseline without one is never pushed onto
\* the rows, so the credit goes to an object the result does not hold
workingCopy_noPush(baselineRows, fandaAcct) == SelectSeqBy(baselineRows, "SUMMARY")

\* baselineRows.filter(not SUMMARY).map(copy), plus the F&A row when missing
workingCopy(baselineRows, fandaAcct) ==
  LET rows == SelectSeqBy(baselineRows, "SUMMARY")
  IN IF FindIdx(rows, fandaAcct) = 0 THEN Append(rows, newFandaRow(fandaAcct)) ELSE rows

\* mutant: the surcharge is credited to the destination with the direct
\* amount, the indirect-cost row is left alone
postTransfer_toDest(rows, fi, ti, gi, imp) ==
  LET r1 == [rows EXCEPT ![fi].proposed_budget = @ - NumberOf(fromCents(imp.source_out))]
      r3 == [r1 EXCEPT ![ti].proposed_budget =
               @ + NumberOf(fromCents(imp.direct_to_dest)) + NumberOf(fromCents(imp.fa_added))]
  IN [i \in DOMAIN r3 |->
        [r3[i] EXCEPT !.change = r3[i].proposed_budget - r3[i].current_budget]]

\* the three postings and the recomputed change of every row
\* mutant: the surcharge is taken from the indirect-cost row instead of added
postTransfer_debitFanda(rows, fi, ti, gi, imp) ==
  LET r1 == [rows EXCEPT ![fi].proposed_budget = @ - NumberOf(fromCents(imp.source_out))]
      r2 == [r1 EXCEPT ![ti].proposed_budget = @ + NumberOf(fromCents(imp.direct_to_dest))]
      r3 == [r2 EXCEPT ![gi].proposed_budget = @ - NumberOf(fromCents(imp.fa_added))]
  IN [i \in DOMAIN r3 |->
        [r3[i] EXCEPT !.change = r3[i].proposed_budget - r3[i].current_budget]]

\* mutant: the surcharge overwrites the indirect-cost balance (= for +=)
postTransfer_overwrite(rows, fi, ti, gi, imp) ==
  LET r1 == [rows EXCEPT ![fi].proposed_budget = @ - NumberOf(fromCents(imp.source_out))]
      r2 == [r1 EXCEPT ![ti].proposed_budget = @ + NumberOf(fromCents(imp.direct_to_dest))]
      r3 == [r2 EXCEPT ![gi].proposed_budget = NumberOf(fromCents(imp.fa_added))]
  IN [i \in DOMAIN r3 |->
        [r3[i] EXCEPT !.change = r3[i].proposed_budget - r3[i].current_budget]]

postTransfer(rows, fi, ti, gi, imp) ==
  LET r1 == [rows EXCEPT ![fi].proposed_budget = @ - NumberOf(fromCents(imp.source_out))]
      r2 == [r1 EXCEPT ![ti].proposed_budget = @ + NumberOf(fromCents(imp.direct_to_dest))]
      r3 == [r2 EXCEPT ![gi].proposed_budget = @ + NumberOf(fromCents(imp.fa_added))]
  IN [i \in DOMAIN r3 |->
        [r3[i] EXCEPT !.change = r3[i].proposed_budget - r3[i].current_budget]]

\* mutant: the log row records the two accounts the wrong way round
makeLogRow_swapped(fromAcct, toAcct, imp, mode) ==
  [from |-> toAcct, to |-> fromAcct, source_out_cents |-> imp.source_out,
   direct_to_dest_cents |-> imp.direct_to_dest,
   fa_added_to_fanda_cents |-> imp.fa_added,
   dest_mtdc_eligible |-> imp.eligible, mode |-> mode]

makeLogRow(fromAcct, toAcct, imp, mode) ==
  [from |-> fromAcct, to |-> toAcct, source_out_cents |-> imp.source_out,
   direct_to_dest_cents |-> imp.direct_to_dest,
   fa_added_to_fanda_cents |-> imp.fa_added,
   dest_mtdc_eligible |-> imp.eligible, mode |-> mode]

\* mutant: the rows are not copied (map without the spread), so the postings
\* land in the caller's own row objects
callerRowsAfter_alias(baselineRows, rows) ==
  [i \in DOMAIN baselineRows |->
     IF baselineRows[i].account = "SUMMARY" THEN baselineRows[i]
     ELSE rows[FindIdx(rows, baselineRows[i].account)]]

\* The contents of the caller's array after the call: the rows that were
\* written are spread copies, so none of the caller's objects is touched.
callerRowsAfter(baselineRows, rows) == baselineRows

\* mutant: only a transfer out of the indirect-cost account is refused
accountChecks_fromOnly(fandaAcct, rows, fromAcct, toAcct) ==
  IF fromAcct = fandaAcct THEN "ForbiddenIndirectTransfer"
  ELSE IF FindIdx(rows, fromAcct) = 0 THEN "UnknownSource"
  ELSE IF FindIdx(rows, toAcct) = 0 THEN "UnknownDestination"
  ELSE IF fromAcct = toAcct THEN "IdenticalAccounts"
  ELSE "none"

\* mutant: the comparison of the two accounts is left out
accountChecks_noIdentical(fandaAcct, rows, fromAcct, toAcct) ==
  IF fromAcct = fandaAcct \/ toAcct = fandaAcct THEN "ForbiddenIndirectTransfer"
  ELSE IF FindIdx(rows, fromAcct) = 0 THEN "UnknownSource"
  ELSE IF FindIdx(rows, toAcct) = 0 THEN "UnknownDestination"
  ELSE "none"

\* the checks applyOne makes on the two accounts before it computes anything:
\* the first that fails names the error thrown
accountChecks(fandaAcct, rows, fromAcct, toAcct) ==
  IF fromAcct = fandaAcct \/ toAcct = fandaAcct THEN "ForbiddenIndirectTransfer"
  ELSE IF FindIdx(rows, fromAcct) = 0 THEN "UnknownSource"
  ELSE IF FindIdx(rows, toAcct) = 0 THEN "UnknownDestination"
  ELSE IF fromAcct = toAcct THEN "IdenticalAccounts"
  ELSE "none"

\* mutant: a missing F&A row is created with its first credit as its baseline
\* and the reconciliation compares the working rows with themselves
applyOne_seeded(rates, baselineRows, snap, fromAcct, toAcct, amountCents, mode) ==
  LET fandaAcct == fandaOf(rates)
      created == FindIdx(SelectSeqBy(baselineRows, "SUMMARY"), fandaAcct) = 0
      rows == workingCopy(baselineRows, fandaAcct)
      gi == FindIdx(rows, fandaAcct)
      fi == FindIdx(rows, fromAcct)
      ti == FindIdx(rows, toAcct)
      imp == computeTransferImpact(rates, toAcct, amountCents, mode)
      enc == encumbrancesFor(fromAcct, snap)
      fromAfter == toCents(rows[fi].proposed_budget) - imp.source_out
      seeded == IF created THEN [rows EXCEPT ![gi].current_budget = imp.fa_added]
                ELSE rows
      posted == postTransfer(seeded, fi, ti, gi, imp)
      fail(e) == [err |-> e, argRows |-> baselineRows]
  IN IF fromAcct = fandaAcct \/ toAcct = fandaAcct THEN fail("ForbiddenIndirectTransfer")
     ELSE IF fi = 0 THEN fail("UnknownSource")
     ELSE IF ti = 0 THEN fail("UnknownDestination")
     ELSE IF fromAcct = toAcct THEN fail("IdenticalAccounts")
     ELSE IF imp.err # "none" THEN fail(imp.err)
     ELSE IF fromAfter < toCents(enc) THEN fail("EncumbranceBreach")
     ELSE IF fromAfter < 0 THEN fail("NegativeBalance")
     ELSE IF strictNotEqual(baselineSum(posted), baselineSum(posted))
          THEN [err |-> "ReconciliationFailure", argRows |-> baselineRows]
     ELSE [err |-> "none", rows |-> posted,
           logRow |-> makeLogRow(fromAcct, toAcct, imp, mode),
           argRows |-> baselineRows]

applyOne(rates, baselineRows, snap, fromAcct, toAcct, amountCents, mode) ==
  LET fandaAcct == fandaOf(rates)
      rows == workingCopy(baselineRows, fandaAcct)
      gi == FindIdx(rows, fandaAcct)
      fi == FindIdx(rows, fromAcct)
      ti == FindIdx(rows, toAcct)
      imp == computeTransferImpact(rates, toAcct, amountCents, mode)
      enc == encumbrancesFor(fromAcct, snap)
      fromAfter == toCents(rows[fi].proposed_budget) - imp.source_out
      posted == postTransfer(rows, fi, ti, gi, imp)
      fail(e) == [err |-> e, argRows |-> baselineRows]
      pre == accountChecks(fandaAcct, rows, fromAcct, toAcct)
  IN IF pre # "none" THEN fail(pre)
     ELSE IF imp.err # "none" THEN fail(imp.err)
     ELSE IF fromAfter < toCents(enc) THEN fail("EncumbranceBreach")
     ELSE IF fromAfter < 0 THEN fail("NegativeBalance")
     ELSE IF strictNotEqual(baselineSum(baselineRows), baselineSum(posted))
          THEN [err |-> "ReconciliationFailure",
                argRows |-> callerRowsAfter(baselineRows, posted)]
     ELSE [err |-> "none", rows |-> posted,
           logRow |-> makeLogRow(fromAcct, toAcct, imp, mode),
           argRows |-> callerRowsAfter(baselineRows, posted)]

\* the loop of projectWithTransfers as a function of its arguments: the rows
\* and the log rows when every applyOne returns, the error of the first one
\* that throws otherwise
RECURSIVE projectWithTransfers(_, _, _, _)
projectWithTransfers(rates, baselineRows, snap, ts) ==
  IF ts = <<>> THEN [err |-> "none", finalRows |-> baselineRows, mapping |-> <<>>]
  ELSE LET t == Head(ts)
           out == applyOne(rates, baselineRows, snap, t.from, t.to, t.amount_cents, t.mode)
       IN IF out.err # "none"
          THEN [err |-> out.err, finalRows |-> baselineRows, mapping |-> <<>>]
          ELSE LET rest == projectWithTransfers(rates, out.rows, snap, Tail(ts))
               IN IF rest.err # "none" THEN rest
                  ELSE [rest EXCEPT !.mapping = <<out.logRow>> \o @]

\* ------------------------------------------------------------ the inputs
Modes == {"budget_total", "direct_to_dest"}

Rate276 == [num |-> 69, den |-> 250]

ProjEligible == {<<>>, <<"52000">>, <<"51000", "52000", "58960">>}

policy(r, fanda, elig) ==
  [present |-> TRUE, fa_rate |-> r, indirect_costs |-> fanda,
   mtdc_eligible_accounts |-> elig]

Policies ==
  {policy(Rate276, "58960", e) : e \in ProjEligible}
    \cup {policy(ZeroRate, "", <<"51000", "52000", "58960">>)}

Balances == {-50, 100, 300}

Budgets == {100, 200}

lineItem(a, cur, prop, enc) ==
  [account |-> a, current_budget |-> cur, proposed_budget |-> prop,
   change |-> prop - cur, encumbrances |-> enc]

Baselines ==
  {<<lineItem("51000", c1, p1, 20), lineItem("52000", 100, p2, 0)>> \o f \o s :
     c1 \in Budgets, p1 \in Balances, p2 \in Balances,
     f \in {<<>>, <<lineItem("58960", 40, 40, 0)>>},
     s \in {<<>>, <<lineItem("SUMMARY", 500, 500, 0)>>}}

Snapshots ==
  {<<>>, <<lineItem("52000", 100, 100, -200), lineItem("51000", 300, 300, 250)>>}

TransferAccounts == {"51000", "52000", "53000", "58960"}

ProjAmounts == {0, 30, 100}

TransferItems ==
  [from : TransferAccounts, to : TransferAccounts,
   amount_cents : ProjAmounts, mode : Modes]

NoResult == [finalRows |-> <<>>, mapping |-> <<>>, returned |-> FALSE]

NoImpact == [called |-> FALSE]

NoCodec == [called |-> FALSE]

\* ------------------------------------------------------------- the state
VARIABLES ratesData, baselineRows, snapshot, transfers, working, logs, pc,
          error, result, projection, baseline0, snapshot0, impact, codec

vars == <<ratesData, baselineRows, snapshot, transfers, working, logs, pc,
          error, result, projection, baseline0, snapshot0, impact, codec>>

\* projectWithTransfers entered: working = baselineRows, logs = []
Init ==
  /\ ratesData \in Policies
  /\ baselineRows \in Baselines
  /\ snapshot \in Snapshots
  /\ transfers = <<>>
  /\ working = baselineRows
  /\ logs = <<>>
  /\ pc = "loop"
  /\ error = "none"
  /\ result = NoResult
  /\ projection = NoResult
  /\ baseline0 = baselineRows
  /\ snapshot0 = snapshot
  /\ impact = NoImpact
  /\ codec = NoCodec

\* what one loop iteration does with the next item t of the transfer list
stepOutcome(t) ==
  applyOne(ratesData, working, snapshot, t.from, t.to, t.amount_cents, t.mode)

\* on the first iteration working is the caller's array itself
callerBaseline(out) == IF transfers = <<>> THEN out.argRows ELSE baselineRows

\* one iteration of the for loop whose applyOne returns
ApplyNext ==
  /\ pc = "loop"
  /\ Len(transfers) < MaxTransfers
  /\ \E t \in TransferItems :
       LET out == stepOutcome(t) IN
         /\ out.err = "none"
         /\ transfers' = Append(transfers, t)
         /\ working' = out.rows
         /\ logs' = Append(logs, out.logRow)
         /\ baselineRows' = callerBaseline(out)
  /\ UNCHANGED <<ratesData, snapshot, pc, error, result, projection,
                 baseline0, snapshot0, impact, codec>>

\* mutant: a throwing transfer is caught inside the loop and skipped
ThrowNext_skip ==
  /\ pc = "loop"
  /\ Len(transfers) < MaxTransfers
  /\ \E t \in TransferItems :
       /\ stepOutcome(t).err # "none"
       /\ transfers' = Append(transfers, t)
  /\ UNCHANGED <<ratesData, baselineRows, snapshot, working, logs, pc, error,
                 result, projection, baseline0, snapshot0, impact, codec>>

\* one iteration whose applyOne throws: the exception leaves
\* projectWithTransfers and the caller's catch substitutes the baseline
ThrowNext ==
  /\ pc = "loop"
  /\ Len(transfers) < MaxTransfers
  /\ \E t \in TransferItems :
       LET out == stepOutcome(t) IN
         /\ out.err # "none"
         /\ transfers' = Append(transfers, t)
         /\ error' = out.err
         /\ baselineRows' = callerBaseline(out)
         /\ projection' = [finalRows |-> callerBaseline(out), mapping |-> <<>>,
                           returned |-> TRUE]
  /\ pc' = "thrown"
  /\ UNCHANGED <<ratesData, snapshot, working, logs, result,
                 baseline0, snapshot0, impact, codec>>

\* the transfer list is exhausted
Return ==
  /\ pc = "loop"
  /\ pc' = "returned"
  /\ result' = [finalRows |-> working, mapping |-> logs, returned |-> TRUE]
  /\ projection' = result'
  /\ UNCHANGED <<ratesData, baselineRows, snapshot, transfers, working, logs,
                 error, baseline0, snapshot0, impact, codec>>

Next == ApplyNext \/ ThrowNext \/ Return

Spec == Init /\ [][Next]_vars

\* ------------------------------- a baseline with a number that is not finite
NonFiniteBaselines ==
  {<<lineItem("51000", 100, 300, 20), lineItem("52000", 100, 100, 0)>> \o x :
     x \in {<<>>, <<lineItem("54000", NegInfinity, 100, 0)>>}}

\* projectWithTransfers entered with such a baseline
NonFiniteInit ==
  /\ ratesData \in Policies
  /\ baselineRows \in NonFiniteBaselines
  /\ snapshot \in Snapshots
  /\ transfers = <<>>
  /\ working = baselineRows
  /\ logs = <<>>
  /\ pc = "loop"
  /\ error = "none"
  /\ result = NoResult
  /\ projection = NoResult
  /\ baseline0 = baselineRows
  /\ snapshot0 = snapshot
  /\ impact = NoImpact
  /\ codec = NoCodec

NonFiniteSpec == NonFiniteInit /\ [][Next]_vars

\* ------------------ baselines and snapshots without a negative amount
NonNegBaselines ==
  {b \in Baselines :
     /\ b[1].current_budget = 100
     /\ \A i \in DOMAIN b : b[i].proposed_budget >= 0}

NonNegSnapshots ==
  {<<>>, <<lineItem("52000", 100, 100, 80), lineItem("51000", 300, 300, 250)>>}

NonNegInit ==
  /\ ratesData \in Policies
  /\ baselineRows \in NonNegBaselines
  /\ snapshot \in NonNegSnapshots
  /\ transfers = <<>>
  /\ working = baselineRows
  /\ logs = <<>>
  /\ pc = "loop"
  /\ error = "none"
  /\ result = NoResult
  /\ projection = NoResult
  /\ baseline0 = baselineRows
  /\ snapshot0 = snapshot
  /\ impact = NoImpact
  /\ codec = NoCodec

NonNegSpec == NonNegInit /\ [][Next]_vars

\* ----------------------------------- the transfer panel and its projection
\* the accounts the From and To lists offer
accounts(newBudget, rates) ==
  {newBudget[i].account : i \in DOMAIN newBudget}
    \ {"SUMMARY", fandaOf(rates)}

\* the snapshot the main component keeps when none was loaded
mirrorSnapshot(newBudget) == newBudget

\* the click handler of the Apply button: the alert it raises, or "none" when
\* it queues the transfer
onApplyClick(rates, newBudget, currentSnapshot, from, to, cents, mode) ==
  IF from = "" \/ to = "" THEN "Select From and To"
  ELSE IF cents = 0 THEN "Enter a positive amount"
  ELSE LET fi == FindIdx(newBudget, from)
           imp == computeTransferImpact(rates, to, cents, mode)
       IN IF fi = 0 THEN "Source account not found in baseline"
          ELSE IF imp.err # "none" THEN "Invalid amount"
          ELSE LET enc == encumbrancesFor(from, currentSnapshot)
                   fromAfter == toCents(newBudget[fi].proposed_budget) - imp.source_out
               IN IF fromAfter < toCents(enc) THEN "Would breach encumbrance"
                  ELSE IF fromAfter < 0 THEN "Would make negative"
                  ELSE "none"

\* the memoised projection of the main component
memoProjection(rates, newBudget, currentSnapshot, ts) ==
  LET out == projectWithTransfers(rates, newBudget, currentSnapshot, ts)
  IN IF out.err = "none"
     THEN [finalRows |-> out.finalRows, mapping |-> out.mapping, returned |-> TRUE]
     ELSE [finalRows |-> newBudget, mapping |-> <<>>, returned |-> TRUE]

PanelAmounts == {0 - 70, 0, 30, 100}

\* the loaded budgets: those with a SUMMARY row
PanelBaselines == {b \in NonNegBaselines : \E i \in DOMAIN b : b[i].account = "SUMMARY"}

PanelInit ==
  /\ ratesData \in Policies
  /\ baselineRows \in PanelBaselines
  /\ snapshot \in {mirrorSnapshot(baselineRows)} \cup (NonNegSnapshots \ {<<>>})
  /\ transfers = <<>>
  /\ working = baselineRows
  /\ logs = <<>>
  /\ pc = "panel"
  /\ error = "none"
  /\ result = NoResult
  /\ projection = [finalRows |-> baselineRows, mapping |-> <<>>, returned |-> TRUE]
  /\ baseline0 = baselineRows
  /\ snapshot0 = snapshot
  /\ impact = NoImpact
  /\ codec = NoCodec

\* Apply clicked: the request is queued and the projection recomputed over the
\* longer queue, or an alert is raised and nothing changes
ClickApply ==
  /\ pc = "panel"
  /\ Len(transfers) < MaxTransfers
  /\ \E from \in accounts(baselineRows, ratesData) \cup {""},
        to \in accounts(baselineRows, ratesData) \cup {""},
        cents \in PanelAmounts, mode \in Modes :
       IF onApplyClick(ratesData, baselineRows, snapshot, from, to, cents, mode) = "none"
       THEN /\ transfers' = Append(transfers,
                               [from |-> from, to |-> to, amount_cents |-> cents, mode |-> mode])
            /\ projection' = memoProjection(ratesData, baselineRows, snapshot, transfers')
       ELSE UNCHANGED <<transfers, projection>>
  /\ UNCHANGED <<ratesData, baselineRows, snapshot, working, logs, pc, error, result,
                 baseline0, snapshot0, impact, codec>>

\* Clear All clicked
ClearAll ==
  /\ pc = "panel"
  /\ transfers # <<>>
  /\ transfers' = <<>>
  /\ projection' = memoProjection(ratesData, baselineRows, snapshot, <<>>)
  /\ UNCHANGED <<ratesData, baselineRows, snapshot, working, logs, pc, error,
                 result, baseline0, snapshot0, impact, codec>>

PanelNext == ClickApply \/ ClearAll

PanelSpec == PanelInit /\ [][PanelNext]_vars

\* ----------------------------------- computeTransferImpact called alone
RateHalf == [num |-> 1, den |-> 2]

RateOne == [num |-> 1, den |-> 1]

ImpactRates == {ZeroRate, Rate276, RateHalf, RateOne}

NoRates ==
  [present |-> FALSE, fa_rate |-> ZeroRate, indirect_costs |-> "",
   mtdc_eligible_accounts |-> <<>>]

ImpactPolicies ==
  {policy(r, f, e) : r \in ImpactRates, f \in {"", "58960", "52000"},
                     e \in ProjEligible} \cup {NoRates}

ImpactAmounts == (-1 .. MaxAmount) \cup {100, 125, 1000000, 2000000}

ImpactInit ==
  /\ ratesData = NoRates
  /\ baselineRows = <<>>
  /\ snapshot = <<>>
  /\ transfers = <<>>
  /\ working = <<>>
  /\ logs = <<>>
  /\ pc = "idle"
  /\ error = "none"
  /\ result = NoResult
  /\ projection = NoResult
  /\ baseline0 = <<>>
  /\ snapshot0 = <<>>
  /\ impact = NoImpact
  /\ codec = NoCodec

\* one call of computeTransferImpact (by the preview effect, the Apply button
\* or applyOne) with arguments drawn from the input sets
CallImpact ==
  /\ ~impact.called
  /\ \E rates \in ImpactPolicies, toAcct \in TransferAccounts,
        amountCents \in ImpactAmounts, mode \in Modes :
       impact' = [called |-> TRUE, rates |-> rates, toAcct |-> toAcct,
                  amountCents |-> amountCents, mode |-> mode,
                  out |-> computeTransferImpact(rates, toAcct, amountCents, mode)]
  /\ UNCHANGED <<ratesData, baselineRows, snapshot, transfers, working, logs,
                 pc, error, result, projection, baseline0, snapshot0, codec>>

ImpactNext == CallImpact

ImpactSpec == ImpactInit /\ [][ImpactNext]_vars

\* ------------------------------------------- the currency codec called alone
CodecCents == (0 - MaxCents) .. MaxCents

CodecInit ==
  /\ ratesData = NoRates
  /\ baselineRows = <<>>
  /\ snapshot = <<>>
  /\ transfers = <<>>
  /\ working = <<>>
  /\ logs = <<>>
  /\ pc = "idle"
  /\ error = "none"
  /\ result = NoResult
  /\ projection = NoResult
  /\ baseline0 = <<>>
  /\ snapshot0 = <<>>
  /\ impact = NoImpact
  /\ codec = NoCodec

\* an integer cent count is formatted by fromCents and the text is read back
\* by toCents (the string branch: the text is parsed as it stands)
RoundTrip ==
  /\ ~codec.called
  /\ \E x \in CodecCents :
       codec' = [called |-> TRUE, x |-> x, text |-> fromCents(x),
                 back |-> parseDecimal(fromCents(x))]
  /\ UNCHANGED <<ratesData, baselineRows, snapshot, transfers, working, logs,
                 pc, error, result, projection, baseline0, snapshot0, impact>>

CodecNext == RoundTrip

CodecSpec == CodecInit /\ [][CodecNext]_vars

\* ------------------------------------------- toCents handed a text
\* the texts of digits of length n over the characters cs
RECURSIVE textsOver(_, _)
textsOver(cs, n) ==
  IF n = 0 THEN {<<>>}
  ELSE {<<c>> \o t : c \in cs, t \in textsOver(cs, n - 1)}

FracTexts == UNION {textsOver({"0", "5", "9"}, n) : n \in 0 .. MaxFracDigits}

WholeTexts == {<<"0">>, <<"1">>, <<"1", "2">>}

\* texts with no number in them
OtherTexts ==
  {<<>>, <<"a", "b", "c">>, <<"-">>, <<"-", "-", "5">>, <<".">>, <<"$">>,
   <<"-", ".">>, <<" ">>, <<"-", "a">>}

\* toCents is handed the decimal text  [-]whole[.frac]
ReadDecimal ==
  /\ ~codec.called
  /\ \E neg \in BOOLEAN, w \in WholeTexts, f \in FracTexts, dot \in BOOLEAN :
       /\ f # <<>> => dot
       /\ LET text == (IF neg THEN <<"-">> ELSE <<>>) \o w
                       \o (IF dot THEN <<".">> ELSE <<>>) \o f
          IN codec' = [called |-> TRUE, kind |-> "decimal", text |-> text,
                       neg |-> neg, whole |-> w, frac |-> f,
                       out |-> toCentsOfText(text)]
  /\ UNCHANGED <<ratesData, baselineRows, snapshot, transfers, working, logs,
                 pc, error, result, projection, baseline0, snapshot0, impact>>

\* toCents is handed a text with no number in it
ReadOther ==
  /\ ~codec.called
  /\ \E text \in OtherTexts :
       codec' = [called |-> TRUE, kind |-> "other", text |-> text,
                 out |-> toCentsOfText(text)]
  /\ UNCHANGED <<ratesData, baselineRows, snapshot, transfers, working, logs,
                 pc, error, result, projection, baseline0, snapshot0, impact>>

TextNext == ReadDecimal \/ ReadOther

TextSpec == CodecInit /\ [][TextNext]_vars

\* ------------------------- FineTune.compat.fixed: the capping engine
\* Its rows and amounts are dollar numbers; they are held here in cents, and
\* its toCents (Math.round(v * 100)) and fromCents (Math.round(c) / 100) are
\* then the rounding of a whole number of cents.
fixed_toCents(n) == (2 * n + 1) \div 2

fixed_fromCents(c) == (2 * c + 1) \div 2

fixedRates(r, fa, elig) ==
  [fa_rate |-> r, fa |-> fa, mtdc_eligible_accounts |-> elig]

fixedItem(a, prop, enc, hasAvail, avail) ==
  [account |-> a, current_budget |-> prop, proposed_budget |-> prop,
   encumbrances |-> enc, has_balance_available |-> hasAvail,
   balance_available |-> avail]

\* Math.floor(totalCents / (1 + faRate))
fixed_floorByOnePlus(cents, rate) ==
  (cents * rate.den) \div (rate.den + rate.num)

\* Math.floor(directCents * (capCents / totalCents)): the product is computed
\* in double arithmetic, and where the exact quotient is a whole number the
\* double may fall just below it; lost is the cent lost that way
fixed_rescale(directCents, capCents, totalCents, lost) ==
  ((directCents * capCents) \div totalCents) - lost

\* what the source has available, in cents: balance_available when the row
\* carries one, its proposed budget less its encumbrances otherwise
fixed_cap(fromRow) ==
  fixed_toCents(IF fromRow.has_balance_available THEN fromRow.balance_available
                ELSE fromRow.proposed_budget - fromRow.encumbrances)

\* the requested total, cut to the cap
fixed_capped(fromRow, amountCents) ==
  IF fixed_toCents(amountCents) > fixed_cap(fromRow) THEN fixed_cap(fromRow)
  ELSE fixed_toCents(amountCents)

\* the amounts computeTransferImpact settles on: the requested total is cut
\* to what the source has available, and in mode direct_to_dest the total
\* with the surcharge is rescaled to fit
fixed_amounts(rates, fromRow, toAcct, mode, amountCents, lost) ==
  LET destIsMTDC == toAcct \in Range(rates.mtdc_eligible_accounts)
      faRate == rates.fa_rate
      capCents == fixed_cap(fromRow)
      totalCents == fixed_capped(fromRow, amountCents)
      fa1 == mulRate(totalCents, faRate)
      scaled == fixed_rescale(totalCents, capCents, totalCents + fa1, lost)
  IN IF ~destIsMTDC
     THEN [direct_cents |-> totalCents, fa_cents |-> 0, total_cents |-> totalCents,
           dest_mtdc_eligible |-> FALSE]
     ELSE IF mode = "budget_total"
     THEN [direct_cents |-> fixed_floorByOnePlus(totalCents, faRate),
           fa_cents |-> totalCents - fixed_floorByOnePlus(totalCents, faRate),
           total_cents |-> totalCents, dest_mtdc_eligible |-> TRUE]
     ELSE IF totalCents + fa1 > capCents
     THEN [direct_cents |-> scaled, fa_cents |-> capCents - scaled,
           total_cents |-> capCents, dest_mtdc_eligible |-> TRUE]
     ELSE [direct_cents |-> totalCents, fa_cents |-> fa1,
           total_cents |-> totalCents + fa1, dest_mtdc_eligible |-> TRUE]

\* the cents the rescaling may lose: one where it is reached and its exact
\* quotient is a whole number, none otherwise
fixed_canLose(rates, fromRow, toAcct, mode, amountCents) ==
  LET capCents == fixed_cap(fromRow)
      totalCents == fixed_capped(fromRow, amountCents)
      grossed == totalCents + mulRate(totalCents, rates.fa_rate)
  IN IF /\ toAcct \in Range(rates.mtdc_eligible_accounts)
        /\ mode = "direct_to_dest"
        /\ grossed > capCents
        /\ grossed > 0
        /\ (totalCents * capCents) % grossed = 0
     THEN {0, 1} ELSE {0}

fixed_computeTransferImpact(rates, rows, fromAcct, toAcct, mode, amountCents, lost) ==
  LET fi == FindIdx(rows, fromAcct)
      ti == FindIdx(rows, toAcct)
      m == fixed_amounts(rates, rows[fi], toAcct, mode, amountCents, lost)
  IN IF fi = 0 THEN [err |-> "UnknownSource"]
     ELSE IF ti = 0 THEN [err |-> "UnknownDestination"]
     ELSE IF fromAcct = toAcct THEN [err |-> "IdenticalAccounts"]
     ELSE IF amountCents <= 0 THEN [err |-> "InvalidAmount"]
     ELSE IF m.dest_mtdc_eligible /\ m.fa_cents > 0 /\ FindIdx(rows, rates.fa) = 0
          THEN [err |-> "MissingIndirectRow"]
     ELSE [err |-> "none",
           mapping |-> [from_account |-> fromAcct, to_account |-> toAcct] @@ m]

\* applyOne of the variant: the mapping row is posted to copies of the rows
fixed_applyOne(rows, m, rates) ==
  LET fi == FindIdx(rows, m.from_account)
      ti == FindIdx(rows, m.to_account)
      gi == FindIdx(rows, rates.fa)
      r1 == [rows EXCEPT ![fi].proposed_budget =
                fixed_fromCents(fixed_toCents(@) - m.total_cents)]
      r2 == [r1 EXCEPT ![ti].proposed_budget =
                fixed_fromCents(fixed_toCents(@) + m.direct_cents)]
      r3 == [r2 EXCEPT ![gi].proposed_budget =
                fixed_fromCents(fixed_toCents(@) + m.fa_cents)]
  IN IF fi = 0 \/ ti = 0 THEN rows
     ELSE IF m.dest_mtdc_eligible /\ m.fa_cents > 0 /\ gi # 0 THEN r3
     ELSE r2

FixedPolicies ==
  {fixedRates(RateHalf, "58960", <<"51000">>),
   fixedRates(RateOne, "58960", <<"51000", "52000">>)}

FixedBaselines ==
  {<<fixedItem("51000", 300, 20, FALSE, 0), fixedItem("52000", p, 0, h, 40)>> \o f :
     p \in {-50, 100}, h \in BOOLEAN,
     f \in {<<>>, <<fixedItem("58960", 40, 0, FALSE, 0)>>}}

FixedAmounts == {0, 30, 400}

FixedItems ==
  [from : TransferAccounts, to : TransferAccounts,
   amount_cents : FixedAmounts, mode : Modes]

\* projectWithTransfers of the variant entered: working is a copy of rows
FixedInit ==
  /\ ratesData \in FixedPolicies
  /\ baselineRows \in FixedBaselines
  /\ snapshot = <<>>
  /\ transfers = <<>>
  /\ working = baselineRows
  /\ logs = <<>>
  /\ pc = "loop"
  /\ error = "none"
  /\ result = NoResult
  /\ projection = NoResult
  /\ baseline0 = baselineRows
  /\ snapshot0 = snapshot
  /\ impact = NoImpact
  /\ codec = NoCodec

\* the cents the rescaling may lose for item t of the list
fixedLoss(t) ==
  IF FindIdx(working, t.from) = 0 \/ t.amount_cents <= 0 THEN {0}
  ELSE fixed_canLose(ratesData, working[FindIdx(working, t.from)], t.to, t.mode,
                     t.amount_cents)

fixedOutcome(t, lost) ==
  fixed_computeTransferImpact(ratesData, working, t.from, t.to, t.mode,
                              t.amount_cents, lost)

\* one iteration of the variant's loop: impact computed, posted, recorded
FixedApplyNext ==
  /\ pc = "loop"
  /\ Len(transfers) < MaxTransfers
  /\ \E t \in FixedItems : \E lost \in fixedLoss(t) :
       LET out == fixedOutcome(t, lost) IN
         /\ out.err = "none"
         /\ transfers' = Append(transfers, t)
         /\ working' = fixed_applyOne(working, out.mapping, ratesData)
         /\ logs' = Append(logs, out.mapping)
  /\ UNCHANGED <<ratesData, baselineRows, snapshot, pc, error, result,
                 projection, baseline0, snapshot0, impact, codec>>

\* one iteration whose computeTransferImpact throws
FixedThrowNext ==
  /\ pc = "loop"
  /\ Len(transfers) < MaxTransfers
  /\ \E t \in FixedItems :
       LET out == fixedOutcome(t, 0) IN
         /\ out.err # "none"
         /\ transfers' = Append(transfers, t)
         /\ error' = out.err
  /\ pc' = "thrown"
  /\ UNCHANGED <<ratesData, baselineRows, snapshot, working, logs, result,
                 projection, baseline0, snapshot0, impact, codec>>

FixedReturn ==
  /\ pc = "loop"
  /\ pc' = "returned"
  /\ result' = [finalRows |-> working, mapping |-> logs, returned |-> TRUE]
  /\ UNCHANGED <<ratesData, baselineRows, snapshot, transfers, working, logs,
                 error, projection, baseline0, snapshot0, impact, codec>>

FixedNext == FixedApplyNext \/ FixedThrowNext \/ FixedReturn

FixedSpec == FixedInit /\ [][FixedNext]_vars

\* ------------------------------------------------ properties: the impact
\* the destination of the recorded call is eligible with a rate above zero
EligibleCall(mode) ==
  /\ impact.called
  /\ impact.mode = mode
  /\ impact.amountCents > 0
  /\ impact.rates.present
  /\ impact.toAcct # fandaOf(impact.rates)
  /\ impact.toAcct \in Range(impact.rates.mtdc_eligible_accounts)
  /\ impact.rates.fa_rate.num > 0

\* n is an integer nearest to the fraction p / q (q > 0)
Nearest(n, p, q) == 2 * Abs(n * q - p) <= q

\* C2: in mode budget_total with an eligible destination and rate r > 0,
\* direct_to_dest is amountCents / (1 + r) rounded to the nearest cent and
\* fa_added is amountCents - direct_to_dest; 2000000 at 0.276 gives 1567398
\* and 432602.
C2_BudgetTotalSplit ==
  EligibleCall("budget_total") =>
    LET r == impact.rates.fa_rate
        a == impact.amountCents
        o == impact.out
    IN /\ o.err = "none"
       /\ Nearest(o.direct_to_dest, a * r.den, r.den + r.num)
       /\ o.fa_added = a - o.direct_to_dest
       /\ (r = Rate276 /\ a = 2000000) =>
            (o.direct_to_dest = 1567398 /\ o.fa_added = 432602)

C2_Witness ==
  /\ EligibleCall("budget_total")
  /\ impact.rates.fa_rate = Rate276
  /\ impact.amountCents = 2000000
  /\ impact.out.direct_to_dest = 1567398

\* C3: in mode direct_to_dest with an eligible destination and rate r > 0,
\* fa_added is amountCents * r rounded once to the nearest cent and
\* source_out is amountCents + fa_added; 1000000 at 0.276 gives 276000 and
\* 1276000.
C3_DirectToDestSurcharge ==
  EligibleCall("direct_to_dest") =>
    LET r == impact.rates.fa_rate
        a == impact.amountCents
        o == impact.out
    IN /\ o.err = "none"
       /\ Nearest(o.fa_added, a * r.num, r.den)
       /\ o.source_out = a + o.fa_added
       /\ (r = Rate276 /\ a = 1000000) =>
            (o.fa_added = 276000 /\ o.source_out = 1276000)

C3_Witness ==
  /\ EligibleCall("direct_to_dest")
  /\ impact.rates.fa_rate = Rate276
  /\ impact.amountCents = 1000000
  /\ impact.out.source_out = 1276000

\* the destination of the recorded call is not eligible
IneligibleCall ==
  /\ impact.called
  /\ impact.amountCents > 0
  /\ \/ ~impact.rates.present
     \/ impact.toAcct = fandaOf(impact.rates)
     \/ impact.toAcct \notin Range(impact.rates.mtdc_eligible_accounts)

\* C4: for a destination that is not eligible, in either mode and for every
\* positive amount and every configured rate, fa_added is 0 and source_out
\* and direct_to_dest both equal amountCents.
C4_IneligibleNoSurcharge ==
  IneligibleCall =>
    /\ impact.out.err = "none"
    /\ impact.out.fa_added = 0
    /\ impact.out.source_out = impact.amountCents
    /\ impact.out.direct_to_dest = impact.amountCents

C4_Witness ==
  /\ IneligibleCall
  /\ impact.rates.present
  /\ impact.rates.fa_rate = Rate276
  /\ impact.mode = "direct_to_dest"
  /\ impact.amountCents = 100
  /\ impact.out.source_out = 100

\* C5: for an eligible destination, mode budget_total leaves source_out equal
\* to the requested amount and mode direct_to_dest leaves direct_to_dest equal
\* to the requested amount.
C5_ModeDuality ==
  /\ EligibleCall("budget_total") => impact.out.source_out = impact.amountCents
  /\ EligibleCall("direct_to_dest") => impact.out.direct_to_dest = impact.amountCents

C5_Witness ==
  /\ EligibleCall("direct_to_dest")
  /\ impact.out.direct_to_dest = impact.amountCents
  /\ impact.out.source_out > impact.amountCents

\* --------------------------------------------- properties: the projection
\* sum of current_budget, in cents, over the rows other than SUMMARY
CurrentTotal(rows) ==
  LET kept == SelectSeqBy(rows, "SUMMARY")
  IN sum([i \in DOMAIN kept |-> kept[i].current_budget])

HasAccount(rows, a) == \E i \in DOMAIN rows : rows[i].account = a

\* the proposed balance, in cents, of account a in rows
ProposedOf(rows, a) == rows[FindIdx(rows, a)].proposed_budget

\* the encumbrance, in cents, the snapshot holds for account a (0 when absent)
SnapshotEnc(a) ==
  IF HasAccount(snapshot0, a) THEN snapshot0[FindIdx(snapshot0, a)].encumbrances ELSE 0

\* t passes every check of applyOne that comes before the balance checks
PassesEarlierChecks(t) ==
  /\ t.from # fandaOf(ratesData)
  /\ t.to # fandaOf(ratesData)
  /\ t.from # "SUMMARY" /\ HasAccount(working, t.from)
  /\ t.to # "SUMMARY" /\ HasAccount(working, t.to)
  /\ t.from # t.to
  /\ t.amount_cents > 0

SourceOut(t) ==
  computeTransferImpact(ratesData, t.to, t.amount_cents, t.mode).source_out

\* C1: when the projection succeeds, the current_budget total of the rows
\* other than SUMMARY is the same in the final rows as in the baseline passed
\* in, also when the F&A row was created on the way.
C1_Conservation ==
  pc = "returned" => CurrentTotal(result.finalRows) = CurrentTotal(baseline0)

C1_Witness ==
  /\ pc = "returned"
  /\ Len(result.mapping) >= 1
  /\ HasAccount(baseline0, "SUMMARY")
  /\ ~HasAccount(baseline0, "58960")
  /\ HasAccount(result.finalRows, "58960")
  /\ ProposedOf(result.finalRows, "58960") > 0

\* C6: a transfer that passes the earlier checks and would leave the source's
\* proposed balance below the encumbrance the snapshot holds for it (0 when
\* the snapshot has no such account) fails with EncumbranceBreach.
C6_EncumbranceBreach ==
  [][\A t \in TransferItems :
       ( /\ pc = "loop"
         /\ transfers' = Append(transfers, t)
         /\ PassesEarlierChecks(t)
         /\ ProposedOf(working, t.from) - SourceOut(t) < SnapshotEnc(t.from) )
       => (pc' = "thrown" /\ error' = "EncumbranceBreach")]_vars

\* C7: a failing transfer ends the projection there: nothing is returned, the
\* caller falls back to the baseline with an empty mapping, the transfers
\* before the failing one are the only ones applied and none is applied
\* afterwards; a projection that has not failed has applied every transfer it
\* consumed.
C7_FailsAtFirstFailure ==
  /\ [](pc = "thrown" =>
          /\ error # "none"
          /\ ~result.returned
          /\ projection.mapping = <<>>
          /\ projection.finalRows = baseline0
          /\ Len(logs) = Len(transfers) - 1)
  /\ [](pc \in {"loop", "returned"} => Len(logs) = Len(transfers))
  /\ [][pc = "thrown" => UNCHANGED <<pc, transfers, working, logs, result>>]_vars

C7_Witness ==
  /\ pc = "thrown"
  /\ Len(transfers) = 2
  /\ Len(logs) = 1
  /\ working # baseline0

\* C8: the second of two transfers from the same source is judged against
\* the balance the first one left: when it would overdraw that balance the
\* projection fails on it.
C8_CumulativeOverdraw ==
  [][\A t \in TransferItems :
       ( /\ pc = "loop"
         /\ Len(transfers) = 1
         /\ Len(logs) = 1
         /\ transfers' = Append(transfers, t)
         /\ t.from = transfers[1].from
         /\ PassesEarlierChecks(t)
         /\ ProposedOf(working, t.from) - SourceOut(t) < 0 )
       => pc' = "thrown"]_vars

C10_MappingPerRequest ==
  pc = "returned" =>
    /\ Len(result.mapping) = Len(transfers)
    /\ \A i \in DOMAIN transfers :
         LET t == transfers[i]
             m == result.mapping[i]
             imp == computeTransferImpact(ratesData, t.to, t.amount_cents, t.mode)
         IN /\ m.from = t.from
            /\ m.to = t.to
            /\ m.mode = t.mode
            /\ m.source_out_cents = imp.source_out
            /\ m.direct_to_dest_cents = imp.direct_to_dest
            /\ m.fa_added_to_fanda_cents = imp.fa_added
            /\ m.dest_mtdc_eligible = imp.eligible

C10_Witness ==
  /\ pc = "returned"
  /\ Len(result.mapping) = 2
  /\ result.mapping[1].from # result.mapping[2].from
  /\ result.mapping[1].dest_mtdc_eligible
  /\ result.mapping[1].fa_added_to_fanda_cents > 0

\* ------------------------------------------- properties: the eligibility
\* the recorded call went through to an impact (the amount was positive)
ImpactReturned == impact.called /\ impact.out.err = "none"

\* C11: the designated indirect-cost account (the policy's indirect_costs, or
\* "58960" when the policy names none) is never reported eligible, and a
\* transfer to it gets no surcharge, also when the eligible list names it.
C11_FandaNeverEligible ==
  (ImpactReturned /\ impact.toAcct = fandaOf(impact.rates)) =>
    /\ impact.out.eligible = FALSE
    /\ impact.out.fa_added = 0
    /\ impact.out.source_out = impact.out.direct_to_dest

C11_Witness ==
  /\ ImpactReturned
  /\ impact.rates.present
  /\ impact.rates.indirect_costs = "52000"
  /\ impact.toAcct = "52000"
  /\ impact.toAcct \in Range(impact.rates.mtdc_eligible_accounts)
  /\ impact.rates.fa_rate.num > 0
  /\ impact.out.eligible = FALSE
  /\ impact.out.fa_added = 0

\* C12: every account other than the indirect-cost account is reported
\* eligible exactly when the policy's eligible list contains it, at whatever
\* position, the first included; with no policy loaded no account is eligible.
C12_EligibleIffListed ==
  ImpactReturned =>
    /\ impact.toAcct # fandaOf(impact.rates) =>
          ( impact.out.eligible
            <=> ( /\ impact.rates.present
                  /\ impact.toAcct \in Range(impact.rates.mtdc_eligible_accounts) ) )
    /\ ~impact.rates.present => ~impact.out.eligible

C12_Witness ==
  /\ ImpactReturned
  /\ impact.rates.present
  /\ Len(impact.rates.mtdc_eligible_accounts) = 3
  /\ impact.rates.mtdc_eligible_accounts[1] = impact.toAcct
  /\ impact.toAcct # fandaOf(impact.rates)
  /\ impact.out.eligible
  /\ impact.out.fa_added > 0

\* ------------------------------------------------- properties: the codec
\* C13: toCents(fromCents(x)) = x for every integer x, the negative ones with
\* a non-zero cents part (-150, -50) included.
C13_RoundTrip == codec.called => codec.back = codec.x

\* ---------------------------------------- properties: the amount precondition
\* C14: computeTransferImpact fails with InvalidAmount for every amount that
\* is zero or negative, in both modes and for eligible and ineligible
\* destinations alike, and returns no impact then.
C14_InvalidAmount ==
  (impact.called /\ impact.amountCents <= 0) =>
    /\ impact.out.err = "InvalidAmount"
    /\ DOMAIN impact.out = {"err"}

C14_Witness ==
  /\ impact.called
  /\ impact.amountCents = 0
  /\ impact.mode = "budget_total"
  /\ isMtdcEligible(impact.toAcct, impact.rates)
  /\ impact.rates.fa_rate.num > 0
  /\ impact.out.err = "InvalidAmount"

\* ------------------------------------- properties: the checks of applyOne
\* the proposed balance, in cents, of account a in rows, 0 when rows has no
\* such account
ProposedOrZero(rows, a) == IF HasAccount(rows, a) THEN ProposedOf(rows, a) ELSE 0

\* the surcharges, in cents, of the mapping rows
RECURSIVE FaTotal(_)
FaTotal(mapping) ==
  IF mapping = <<>> THEN 0
  ELSE Head(mapping).fa_added_to_fanda_cents + FaTotal(Tail(mapping))

\* C15: a transfer whose source or destination is the indirect-cost account
\* always fails with ForbiddenIndirectTransfer, and in every successful
\* projection the indirect-cost row differs from the baseline by the
\* surcharges of the mapping and by nothing else.
C15_ForbiddenIndirect ==
  /\ [][\A t \in TransferItems :
          ( /\ pc = "loop"
            /\ transfers' = Append(transfers, t)
            /\ (t.from = fandaOf(ratesData) \/ t.to = fandaOf(ratesData)) )
          => (pc' = "thrown" /\ error' = "ForbiddenIndirectTransfer")]_vars
  /\ [](pc = "returned" =>
          /\ \A i \in DOMAIN result.mapping :
                /\ result.mapping[i].from # fandaOf(ratesData)
                /\ result.mapping[i].to # fandaOf(ratesData)
          /\ ProposedOrZero(result.finalRows, fandaOf(ratesData))
               = ProposedOrZero(baseline0, fandaOf(ratesData))
                 + FaTotal(result.mapping))

C15_Witness ==
  /\ pc = "thrown"
  /\ error = "ForbiddenIndirectTransfer"
  /\ Len(transfers) = 2
  /\ Len(logs) = 1
  /\ logs[1].fa_added_to_fanda_cents > 0
  /\ transfers[2].from = fandaOf(ratesData)
  /\ HasAccount(working, transfers[2].to)
  /\ transfers[2].amount_cents > 0
  /\ transfers[2].amount_cents <= ProposedOf(working, fandaOf(ratesData))

\* C16 as stated: applyOne called with the source account equal to the
\* destination account fails with IdenticalAccounts.
C16_IdenticalAccounts ==
  [][\A t \in TransferItems :
       (pc = "loop" /\ transfers' = Append(transfers, t) /\ t.from = t.to)
       => (pc' = "thrown" /\ error' = "IdenticalAccounts")]_vars

\* C16, amended: applyOne called with the source account equal to the
\* destination account always fails: with ForbiddenIndirectTransfer when the
\* account is the indirect-cost account, with UnknownAccount (source) when
\* the working rows hold no such account, and with IdenticalAccounts in
\* every other case.
C16_IdenticalAccountsAmended ==
  [][\A t \in TransferItems :
       (pc = "loop" /\ transfers' = Append(transfers, t) /\ t.from = t.to)
       => /\ pc' = "thrown"
          /\ error' = IF t.from = fandaOf(ratesData) THEN "ForbiddenIndirectTransfer"
                       ELSE IF t.from = "SUMMARY" \/ ~HasAccount(working, t.from)
                            THEN "UnknownSource"
                       ELSE "IdenticalAccounts"]_vars

C16_Witness ==
  /\ pc = "thrown"
  /\ error = "IdenticalAccounts"
  /\ Len(transfers) = 2
  /\ transfers[2].from = transfers[2].to
  /\ transfers[2].amount_cents > 0
  /\ transfers[2].amount_cents <= ProposedOf(working, transfers[2].from)

\* C17: a transfer that passes the earlier checks and whose source_out would
\* take the source's proposed balance below zero fails with NegativeBalance.
C17_NegativeBalance ==
  [][\A t \in TransferItems :
       ( /\ pc = "loop"
         /\ transfers' = Append(transfers, t)
         /\ PassesEarlierChecks(t)
         /\ ProposedOf(working, t.from) - SourceOut(t) < 0 )
       => (pc' = "thrown" /\ error' = "NegativeBalance")]_vars

\* what the request t asks the variant to move: the total that leaves the
\* source in mode budget_total, the amount that reaches the destination in
\* mode direct_to_dest
MovesRequested(t, m) ==
  IF t.mode = "budget_total" THEN m.total_cents = t.amount_cents
  ELSE m.direct_cents = t.amount_cents

\* C18: a request is either carried out as asked or rejected with an error,
\* never silently corrected: a transfer whose requested amount exceeds what
\* the source can give (its proposed balance minus its encumbrance) is
\* rejected, and a transfer that succeeds moves the amount that was
\* requested, not another one.
C18_NeverSilentlyCorrected ==
  [][\A t \in FixedItems :
       ( /\ pc = "loop"
         /\ transfers' = Append(transfers, t)
         /\ HasAccount(working, t.from)
         /\ HasAccount(working, t.to)
         /\ t.from # t.to
         /\ t.amount_cents > 0 )
       => /\ t.amount_cents > ProposedOf(working, t.from)
                                - working[FindIdx(working, t.from)].encumbrances
               => pc' = "thrown"
          /\ pc' = "loop" => MovesRequested(t, logs'[Len(logs')])]_vars

\* the row of account a is among the rows applyOne looks the accounts up in:
\* the working rows other than SUMMARY, and the indirect-cost row it adds
InWorkingRows(a) ==
  a # "SUMMARY" /\ (HasAccount(working, a) \/ a = fandaOf(ratesData))

\* the balance, in cents, request t would leave its source with
BalanceAfter(t) == ProposedOrZero(working, t.from) - SourceOut(t)

\* the rules of applyOne, in the order the validation sequence gives them
RuleOrder ==
  <<"ForbiddenIndirectTransfer", "UnknownSource", "UnknownDestination",
    "IdenticalAccounts", "InvalidAmount", "EncumbranceBreach", "NegativeBalance">>

\* request t violates the rule named e, whatever the other rules say
Violates(t, e) ==
  CASE e = "ForbiddenIndirectTransfer" ->
         t.from = fandaOf(ratesData) \/ t.to = fandaOf(ratesData)
    [] e = "UnknownSource" -> ~InWorkingRows(t.from)
    [] e = "UnknownDestination" -> ~InWorkingRows(t.to)
    [] e = "IdenticalAccounts" -> t.from = t.to
    [] e = "InvalidAmount" -> t.amount_cents <= 0
    [] e = "EncumbranceBreach" ->
         /\ InWorkingRows(t.from) /\ t.amount_cents > 0
         /\ BalanceAfter(t) < SnapshotEnc(t.from)
    [] e = "NegativeBalance" ->
         /\ InWorkingRows(t.from) /\ t.amount_cents > 0
         /\ BalanceAfter(t) < 0

\* the positions in RuleOrder of the rules request t violates
ViolatedAt(t) == {i \in DOMAIN RuleOrder : Violates(t, RuleOrder[i])}

\* C19: applyOne validates in a fixed order and stops at the first failure,
\* so a request that violates several rules fails with the error of the
\* earliest one: ForbiddenIndirectTransfer, then UnknownAccount for the
\* source, then for the destination, then IdenticalAccounts, then the amount
\* check, then EncumbranceBreach, then NegativeBalance.
C19_ValidationOrder ==
  [][\A t \in TransferItems :
       ( /\ pc = "loop"
         /\ transfers' = Append(transfers, t)
         /\ Cardinality(ViolatedAt(t)) >= 2 )
       => /\ pc' = "thrown"
          /\ \A i \in ViolatedAt(t) :
                (\A j \in ViolatedAt(t) : i <= j) => error' = RuleOrder[i]]_vars

\* ------------------------------------ properties: the postings of applyOne
\* the value of field f of account a in rows, 0 when rows has no such account
FieldOrZero(rows, a, f) ==
  IF HasAccount(rows, a) THEN rows[FindIdx(rows, a)][f] ELSE 0

\* the accounts of the rows
AccountsOf(rows) == {rows[i].account : i \in DOMAIN rows}

\* C20: a successful applyOne changes proposed balances in three places and
\* nowhere else: the source goes down by source_out, the destination up by
\* direct_to_dest and the indirect-cost row up by fa_added; the proposed
\* balance of every other row and the current_budget and encumbrances of
\* every row stay as they were.
C20_ThreePostings ==
  [][\A t \in TransferItems :
       (pc = "loop" /\ pc' = "loop" /\ transfers' = Append(transfers, t))
       => LET imp == computeTransferImpact(ratesData, t.to, t.amount_cents, t.mode)
              g == fandaOf(ratesData)
          IN /\ AccountsOf(working') = (AccountsOf(working) \ {"SUMMARY"}) \cup {g}
             /\ Len(working') = Cardinality(AccountsOf(working'))
             /\ \A a \in AccountsOf(working') :
                   /\ FieldOrZero(working', a, "proposed_budget")
                        = FieldOrZero(working, a, "proposed_budget")
                          - (IF a = t.from THEN imp.source_out ELSE 0)
                          + (IF a = t.to THEN imp.direct_to_dest ELSE 0)
                          + (IF a = g THEN imp.fa_added ELSE 0)
                   /\ FieldOrZero(working', a, "current_budget")
                        = FieldOrZero(working, a, "current_budget")
                   /\ FieldOrZero(working', a, "encumbrances")
                        = FieldOrZero(working, a, "encumbrances")]_vars

C20_Witness ==
  /\ pc = "loop"
  /\ Len(logs) = 1
  /\ logs[1].fa_added_to_fanda_cents > 0
  /\ HasAccount(baseline0, "58960")
  /\ ProposedOf(working, "58960")
       = ProposedOf(baseline0, "58960") + logs[1].fa_added_to_fanda_cents
  /\ ProposedOf(working, logs[1].from)
       = ProposedOf(baseline0, logs[1].from) - logs[1].source_out_cents
  /\ ProposedOf(working, logs[1].to)
       = ProposedOf(baseline0, logs[1].to) + logs[1].direct_to_dest_cents

\* --------------------------------------- properties: the indirect-cost row
\* C21: when the working rows hold no row for the indirect-cost account, a
\* transfer to an eligible destination that passes the checks still succeeds,
\* and the rows returned hold a new indirect-cost row with current_budget 0
\* whose proposed balance is fa_added.
C21_FandaRowCreated ==
  [][\A t \in TransferItems :
       ( /\ pc = "loop"
         /\ transfers' = Append(transfers, t)
         /\ PassesEarlierChecks(t)
         /\ ~HasAccount(working, fandaOf(ratesData))
         /\ t.to \in Range(ratesData.mtdc_eligible_accounts)
         /\ BalanceAfter(t) >= 0
         /\ BalanceAfter(t) >= SnapshotEnc(t.from) )
       => LET imp == computeTransferImpact(ratesData, t.to, t.amount_cents, t.mode)
              g == fandaOf(ratesData)
          IN /\ pc' = "loop"
             /\ HasAccount(working', g)
             /\ FieldOrZero(working', g, "current_budget") = 0
             /\ HasAccount(working', g) => ProposedOf(working', g) = imp.fa_added]_vars

C21_Witness ==
  /\ pc = "loop"
  /\ Len(logs) = 1
  /\ ~HasAccount(baseline0, fandaOf(ratesData))
  /\ HasAccount(working, fandaOf(ratesData))
  /\ logs[1].dest_mtdc_eligible
  /\ logs[1].fa_added_to_fanda_cents > 0
  /\ ProposedOf(working, fandaOf(ratesData)) = logs[1].fa_added_to_fanda_cents
  /\ FieldOrZero(working, fandaOf(ratesData), "current_budget") = 0

\* ----------------------------------------- properties: toCents of a text
\* the cents a decimal text means: the sign applies to the whole value and
\* the fraction is cut to two digits, padded with zeros
MeantCents(neg, w, f) ==
  (IF neg THEN -1 ELSE 1) * (100 * digitsValue(w) + digitsValue(twoDigits(f)))

\* C23: toCents applies the sign of a decimal text to the whole value and
\* cuts the fraction to two digits without rounding: "-1.50" gives -150,
\* "-0.50" gives -50 and "1.999" gives 199.
C23_SignAndTruncation ==
  (codec.called /\ codec.kind = "decimal") =>
    codec.out = Num(MeantCents(codec.neg, codec.whole, codec.frac))

\* C24: toCents returns 0 for the empty text and for every text with no
\* number in it ("abc", "-", "--5", "."), never NaN.
C24_UnparseableIsZero ==
  (codec.called /\ codec.kind = "other") => codec.out = Num(0)

\* ------------------------------------- properties: the reconciliation
\* C22: ReconciliationFailure is unreachable: whatever the policy, the
\* baseline, the snapshot and the request, a transfer that passes the
\* validation checks of applyOne never fails the final comparison of the
\* current-budget sums.
C22_ReconciliationUnreachable == error # "ReconciliationFailure"

\* -------------------------------------- properties: the proposed balances
\* sum of proposed_budget, in cents, over the rows other than SUMMARY
ProposedTotal(rows) ==
  LET kept == SelectSeqBy(rows, "SUMMARY")
  IN sum([i \in DOMAIN kept |-> kept[i].proposed_budget])

\* C25: every impact computed satisfies source_out = direct_to_dest +
\* fa_added, so the proposed balances of the rows other than SUMMARY add up
\* to the same total after every successful applyOne and after every
\* successful projection as in the baseline.
C25_ProposedTotalKept ==
  /\ \A i \in DOMAIN logs :
        logs[i].source_out_cents
          = logs[i].direct_to_dest_cents + logs[i].fa_added_to_fanda_cents
  /\ ProposedTotal(working) = ProposedTotal(baseline0)
  /\ pc = "returned" => ProposedTotal(result.finalRows) = ProposedTotal(baseline0)

C25_Witness ==
  /\ pc = "returned"
  /\ Len(result.mapping) = 2
  /\ result.mapping[1].mode = "direct_to_dest"
  /\ result.mapping[1].fa_added_to_fanda_cents > 0
  /\ result.mapping[2].mode = "budget_total"
  /\ result.mapping[2].fa_added_to_fanda_cents > 0
  /\ HasAccount(baseline0, "SUMMARY")
  /\ ProposedTotal(result.finalRows) = ProposedTotal(baseline0)

\* no row other than SUMMARY has a negative proposed balance
NoneNegative(rows) ==
  \A i \in DOMAIN rows :
    rows[i].account # "SUMMARY" => rows[i].proposed_budget >= 0

\* the baseline, the snapshot and the rate hold no negative amount
NonNegInputs ==
  /\ NoneNegative(baseline0)
  /\ \A i \in DOMAIN snapshot0 : snapshot0[i].encumbrances >= 0
  /\ faRateForDest("", ratesData).num >= 0

\* C26: when no baseline row other than SUMMARY has a negative proposed
\* balance, no encumbrance is negative and the rate is not negative, no row
\* other than SUMMARY has a negative proposed balance at any point of a
\* projection or in its result, and the source of every applied transfer is
\* left, right after it, with a proposed balance of at least its encumbrance.
C26_BalancesStayNonNegative ==
  /\ [](NonNegInputs =>
          /\ NoneNegative(working)
          /\ pc = "returned" => NoneNegative(result.finalRows))
  /\ [][\A t \in TransferItems :
          (NonNegInputs /\ pc = "loop" /\ pc' = "loop" /\ transfers' = Append(transfers, t))
          => ProposedOf(working', t.from) >= SnapshotEnc(t.from)]_vars

C26_Witness ==
  /\ NonNegInputs
  /\ pc = "returned"
  /\ Len(result.mapping) = 2
  /\ result.mapping[1].from = "51000"
  /\ result.mapping[2].from = "52000"
  /\ SnapshotEnc("51000") = 250
  /\ ProposedOf(baseline0, "51000") = 300
  /\ ProposedOf(result.finalRows, "51000") < 300
  /\ ProposedOf(result.finalRows, "51000") >= 250

\* C27: with a rate that is not negative, the proposed balance of the
\* indirect-cost row never goes down from one applied transfer to the next in
\* a successful projection, and its final value is its baseline value (0 when
\* the row had to be created) plus the fa_added amounts of the mapping log.
C27_FandaOnlyGrows ==
  /\ [][(faRateForDest("", ratesData).num >= 0 /\ pc = "loop" /\ pc' = "loop")
         => ProposedOrZero(working', fandaOf(ratesData))
              >= ProposedOrZero(working, fandaOf(ratesData))]_vars
  /\ [](pc = "returned" =>
          ProposedOrZero(result.finalRows, fandaOf(ratesData))
            = ProposedOrZero(baseline0, fandaOf(ratesData)) + FaTotal(result.mapping))

C27_Witness ==
  /\ pc = "returned"
  /\ Len(result.mapping) = 2
  /\ result.mapping[1].fa_added_to_fanda_cents > 0
  /\ result.mapping[2].fa_added_to_fanda_cents > result.mapping[1].fa_added_to_fanda_cents
  /\ ProposedOrZero(baseline0, fandaOf(ratesData)) = 40
  /\ ProposedOf(result.finalRows, fandaOf(ratesData))
       = 40 + result.mapping[1].fa_added_to_fanda_cents
            + result.mapping[2].fa_added_to_fanda_cents

\* the transfers ts in every order
Reorderings(ts) ==
  {[i \in DOMAIN ts |-> ts[p[i]]] : p \in Permutations(DOMAIN ts)}

\* the two tables give every account the same proposed balance
SameBalances(rows1, rows2) ==
  /\ AccountsOf(rows1) = AccountsOf(rows2)
  /\ \A a \in AccountsOf(rows1) : ProposedOf(rows1, a) = ProposedOf(rows2, a)

\* C28: what a transfer moves depends only on the policy, the destination,
\* the amount and the mode, so when a sequence of requests and a reordering
\* of it both project successfully from the same baseline, both end with the
\* same proposed balance on every account.
C28_OrderIndependent ==
  pc = "returned" =>
    \A ts \in Reorderings(transfers) :
      LET other == projectWithTransfers(ratesData, baseline0, snapshot0, ts)
      IN other.err = "none" => SameBalances(other.finalRows, result.finalRows)

C28_Witness ==
  /\ pc = "returned"
  /\ Len(transfers) = 2
  /\ transfers[1].from = "51000" /\ transfers[1].to = "52000"
  /\ transfers[2].from = "52000" /\ transfers[2].to = "51000"
  /\ transfers[1].amount_cents # transfers[2].amount_cents
  /\ result.mapping[1].fa_added_to_fanda_cents > 0
  /\ result.mapping[2].fa_added_to_fanda_cents > 0
  /\ LET other == projectWithTransfers(ratesData, baseline0, snapshot0,
                                        <<transfers[2], transfers[1]>>)
     IN /\ other.err = "none"
        /\ other.mapping = <<result.mapping[2], result.mapping[1]>>
        /\ SameBalances(other.finalRows, result.finalRows)

\* C29: every queue the Apply button can build projects without error: the
\* projection over the whole queue succeeds and the projected table carries
\* one mapping row for every queued transfer.
C29_QueueAlwaysProjects ==
  pc = "panel" =>
    /\ projectWithTransfers(ratesData, baselineRows, snapshot, transfers).err = "none"
    /\ Len(projection.mapping) = Len(transfers)

\* C30: in the variant every mapping row, which is always for a positive
\* requested amount, has total_cents, direct_cents and fa_cents of at least
\* zero, also when what the source has available is negative.
C30_MappingNeverNegative ==
  \A i \in DOMAIN logs :
    transfers[i].amount_cents > 0
    => /\ logs[i].total_cents >= 0
       /\ logs[i].direct_cents >= 0
       /\ logs[i].fa_cents >= 0

====
